---- MODULE Spec2Model ----
(***************************************************************************)
(* Model of "bert-initial-paper/Interactive Implementation.ipynb":         *)
(*   - distinct_words(corpus)            (notebook lines 96-110)           *)
(*   - class Embedding: __init__/forward (notebook lines 242-268)          *)
(*                                                                         *)
(* Tensors are sequences: a [B, L] tensor is a sequence of B rows of L     *)
(* integers, a [B, L, W] tensor a sequence of B rows of L vectors of W     *)
(* integers.  Identifiers (token, position, segment ids) are 0-based as in *)
(* the code; row p of an embedding table is table[p + 1].                  *)
(*                                                                         *)
(* The two pretrained collaborators are modelled by what the calls in the  *)
(* notebook ask of them: the tokenizer pads/truncates every sequence to    *)
(* max_length ids, the encoder returns one HIDDEN_SIZE-wide vector per     *)
(* token and rejects sequences longer than its position limit.             *)
(***************************************************************************)
EXTENDS Integers, Sequences, FiniteSets, TLC

(* ------------------------------ bounds -------------------------------- *)
\* Embedding(vocab_size, maxlen, d_model) is constructed with
\* maxlen \in 1..MaxLen and d_model \in 1..MaxDModel.
MaxLen == 5
MaxDModel == 4
\* A batch holds 1..MaxBatch texts, a text 0..MaxWords word pieces.
MaxBatch == 2
MaxWords == 2
\* A corpus holds 0..MaxDocs documents of 0..MaxDocWords words.
MaxDocs == 2
MaxDocWords == 2
\* Hidden width of the pretrained encoder (H = 768 in the notebook's
\* "Model Parameters"), scaled down.
HIDDEN_SIZE == 4

(* --------------------------- vocabulary ------------------------------- *)
\* Special ids of the bert-base-uncased vocabulary.
PAD == 0
CLS == 101
SEP == 102
\* Word-piece ids of the input texts.
WordPieces == {1996}
\* Words of the corpora given to distinct_words.
CorpusWords == {1, 2, 3}

VARIABLES
    \* ---- Embedding instance (set by __init__) ----
    d_model,                  \* self.d_model
    pos_embed,                \* self.pos_embed.weight  [maxlen, d_model]
    seg_embed,                \* self.seg_embed.weight  [2, d_model]
    norm_weight,              \* self.norm.weight       [d_model]
    norm_bias,                \* self.norm.bias         [d_model]
    max_position_embeddings,  \* self.bert_model.config.max_position_embeddings
    \* ---- last call of forward: argument, locals, outcome ----
    x, tokens, pos, segments, token_embeddings, embedding, out, status,
    \* ---- a result the caller has kept from an earlier call ----
    kept,
    \* ---- notebook globals of the distinct_words cells ----
    corpus, corpus_words, n_corpus_words

self == <<d_model, pos_embed, seg_embed, norm_weight, norm_bias,
          max_position_embeddings>>
call == <<x, tokens, pos, segments, token_embeddings, embedding, out, status>>
globals == <<corpus, corpus_words, n_corpus_words>>
vars == <<self, call, kept, globals>>

(* ----------------------------- helpers -------------------------------- *)
None == <<>>

Min(a, b) == IF a <= b THEN a ELSE b
Max(a, b) == IF a >= b THEN a ELSE b

\* A sequence given by its elements, evaluated once.
List(f) == f \o <<>>

\* s[:n]
Take(s, n) == IF n <= 0 THEN <<>> ELSE SubSeq(s, 1, Min(n, Len(s)))

\* [v] * n
Repeat(v, n) == IF n <= 0 THEN <<>> ELSE List([j \in 1..n |-> v])

RECURSIVE SumSeq(_)
SumSeq(s) == IF s = <<>> THEN 0 ELSE Head(s) + SumSeq(Tail(s))

\* All sequences over S of length lo..hi.
SeqsOf(S, lo, hi) == UNION {[1..n -> S] : n \in lo..hi}

(* ---------------------------- distinct_words -------------------------- *)
\* {y for x in corpus for y in x}
WordSet(c) == UNION {{c[i][j] : j \in 1..Len(c[i])} : i \in 1..Len(c)}

\* list(a_set): the elements of the set, each once, in the set's iteration
\* order, which Python does not specify: any order.
ListsOfSet(S) ==
    {l \in [1..Cardinality(S) -> S] : {l[i] : i \in 1..Cardinality(S)} = S}

DistinctWords(c) ==
    /\ corpus' = c
    /\ corpus_words' \in ListsOfSet(WordSet(c))
    /\ n_corpus_words' = Len(corpus_words')
    /\ UNCHANGED <<self, call, kept>>

(* ------------------------- tensor primitives -------------------------- *)
\* t.size(1) of a [B, L] or [B, L, W] tensor, t.size(2) of a [B, L, W] one.
Size1(t) == Len(t[1])
Size2(t) == Len(t[1][1])
Shape2(t) == <<Len(t), Size1(t)>>
Shape3(t) == <<Len(t), Size1(t), Size2(t)>>

\* Faulty variant of Arange: positions counted from 1.
ArangeFromOne(n) == List([j \in 1..n |-> j])

\* torch.arange(n): 0, 1, ..., n-1
Arange(n) == List([j \in 1..n |-> j - 1])

\* row.unsqueeze(0).expand_as(t): the row repeated for every row of t
ExpandAs(row, t) == List([b \in 1..Len(t) |-> row])

\* Faulty variant of ZerosLike: every token marked as sentence B.
OnesLike(t) == List([b \in 1..Len(t) |-> List([i \in 1..Len(t[b]) |-> 1])])

\* torch.zeros_like(t)
ZerosLike(t) == List([b \in 1..Len(t) |-> List([i \in 1..Len(t[b]) |-> 0])])

\* nn.Embedding.forward: raises IndexError unless every id is a row index
EmbeddingInRange(weight, ids) ==
    \A b \in 1..Len(ids) : \A i \in 1..Len(ids[b]) :
        ids[b][i] \in 0..(Len(weight) - 1)

EmbeddingLookup(weight, ids) ==
    List([b \in 1..Len(ids) |->
        List([i \in 1..Len(ids[b]) |-> weight[ids[b][i] + 1]])])

\* a + b on [B, L, W] tensors with torch broadcasting: sizes must agree in
\* every dimension or be 1 there; a size-1 dimension is repeated.
DimOk(m, n) == m = n \/ m = 1 \/ n = 1
Broadcastable(a, b) ==
    \A d \in 1..3 : DimOk(Shape3(a)[d], Shape3(b)[d])
Pick(idx, n) == IF n = 1 THEN 1 ELSE idx
TensorAdd(a, b) ==
    List([bi \in 1..Max(Len(a), Len(b)) |->
      List([i \in 1..Max(Size1(a), Size1(b)) |->
        List([k \in 1..Max(Size2(a), Size2(b)) |->
            a[Pick(bi, Len(a))][Pick(i, Size1(a))][Pick(k, Size2(a))]
          + b[Pick(bi, Len(b))][Pick(i, Size1(b))][Pick(k, Size2(b))]])])])

\* nn.LayerNorm(d) on one vector v of width n:
\*   y[k] = (v[k] - mean) / sqrt(var + eps) * weight[k] + bias[k]
\* kept exact by its integer parts: n*(v[k] - mean), n^3 * var, weight[k],
\* bias[k] (eps is a fixed constant).
LayerNormVec(v, weight, bias) ==
    LET n == Len(v)
        total == SumSeq(v)
        centred == List([k \in 1..n |-> n * v[k] - total])
        var == SumSeq(List([k \in 1..n |-> centred[k] * centred[k]]))
    IN  List([k \in 1..n |-> <<centred[k], var, weight[k], bias[k]>>])

\* nn.LayerNorm raises unless the last dimension equals normalized_shape
LayerNormAccepts(t, weight) == Size2(t) = Len(weight)

\* Faulty variant of LayerNorm: every position of a row normalized from the row's
\* first position instead of from its own vector.
LayerNormOverSequence(t, weight, bias) ==
    List([b \in 1..Len(t) |->
        List([i \in 1..Len(t[b]) |->
            LayerNormVec(t[b][1], weight, bias)])])

LayerNorm(t, weight, bias) ==
    List([b \in 1..Len(t) |->
        List([i \in 1..Len(t[b]) |-> LayerNormVec(t[b][i], weight, bias)])])

(* --------------------------- collaborators ---------------------------- *)
\* self.tokenizer(text, padding='max_length', truncation=True,
\*                max_length=n)['input_ids'] for one text:
\* [CLS] pieces [SEP], cut to n ids, padded with [PAD] to n ids.
EncodeOne(text, n) ==
    LET ids == <<CLS>> \o Take(text, n - 2) \o <<SEP>>
    IN  Take(ids \o Repeat(PAD, n - Len(ids)), n)

Tokenizer(batch, max_length) ==
    List([b \in 1..Len(batch) |-> EncodeOne(batch[b], max_length)])

\* self.bert_model(tokens)[0]: one HIDDEN_SIZE-wide vector per token, a
\* fixed function of the whole row (contextual) and of the position.
BertHidden(row, i, k) == (SumSeq(row) + row[i] + i * k) % 3
\* The encoder raises on a sequence longer than the position limit of its
\* checkpoint, which the notebook never states: a limit below the hidden
\* width, or one that admits sequences as long as the hidden width.
PositionLimits == {HIDDEN_SIZE - 2, HIDDEN_SIZE}
BertAccepts(t, limit) == Size1(t) <= limit
BertModel(t) ==
    List([b \in 1..Len(t) |->
        List([i \in 1..Len(t[b]) |->
            List([k \in 1..HIDDEN_SIZE |-> BertHidden(t[b], i, k)])])])

(* ------------------------------ __init__ ------------------------------ *)
\* nn.Embedding(n, d): an [n, d] table of random weights; the draws are
\* bounded to a family of tables indexed by the seed of the generator.
Seeds == 0..1
EmbeddingInit(seed, n, d) ==
    List([p \in 1..n |->
        List([k \in 1..d |-> (((p - 1) * (seed + 1) + k) % 3) - 1])])

\* nn.LayerNorm(d): weight = ones, bias = zeros
LayerNormWeightInit(d) == Repeat(1, d)
LayerNormBiasInit(d) == Repeat(0, d)

\* num_embeddings of the position table, the maxlen given to __init__
maxlen == Len(pos_embed)

Construct(maxlen_, d_model_) ==
    /\ d_model = d_model_
    /\ \E seed \in Seeds :
        /\ pos_embed = EmbeddingInit(seed, maxlen_, d_model_)
        /\ seg_embed = EmbeddingInit(seed + 1, 2, d_model_)
    /\ norm_weight = LayerNormWeightInit(d_model_)
    /\ norm_bias = LayerNormBiasInit(d_model_)
    /\ max_position_embeddings \in PositionLimits

(* ------------------------------ forward ------------------------------- *)
\* The locals and the outcome of forward(batch) on the instance (lines
\* 254-268), statement by statement; a local the call never assigns is None.
ForwardRun(batch) ==
    LET tokens_ == Tokenizer(batch, d_model)
        seq_len == Size1(tokens_)
        pos_ == ExpandAs(Arange(seq_len), tokens_)
        segments_ == ZerosLike(tokens_)
        r0 == [tokens |-> tokens_, pos |-> pos_, segments |-> segments_,
               token_embeddings |-> None, embedding |-> None, out |-> None,
               status |-> "returned"]
    IN
    IF ~BertAccepts(tokens_, max_position_embeddings)
    THEN [r0 EXCEPT !.status = "encoder_error"]
    ELSE
    LET te == BertModel(tokens_)
        r1 == [r0 EXCEPT !.token_embeddings = te]
    IN
    IF ~EmbeddingInRange(pos_embed, pos_)
    THEN [r1 EXCEPT !.status = "position_index_error"]
    ELSE
    LET pe == EmbeddingLookup(pos_embed, pos_) IN
    IF ~Broadcastable(te, pe)
    THEN [r1 EXCEPT !.status = "add_error"]
    ELSE
    LET s1 == TensorAdd(te, pe) IN
    IF ~EmbeddingInRange(seg_embed, segments_)
    THEN [r1 EXCEPT !.status = "segment_index_error"]
    ELSE
    LET se == EmbeddingLookup(seg_embed, segments_) IN
    IF ~Broadcastable(s1, se)
    THEN [r1 EXCEPT !.status = "add_error"]
    ELSE
    LET e == TensorAdd(s1, se)
        r2 == [r1 EXCEPT !.embedding = e]
    IN
    IF ~LayerNormAccepts(e, norm_weight)
    THEN [r2 EXCEPT !.status = "norm_error"]
    ELSE [r2 EXCEPT !.out = LayerNorm(e, norm_weight, norm_bias)]

\* Faulty variant of Forward: a failure is swallowed and the last tensor computed
\* is returned in place of the result.
ForwardSilent(batch) ==
    \E r \in {ForwardRun(batch)} :
    /\ x' = batch
    /\ tokens' = r.tokens
    /\ pos' = r.pos
    /\ segments' = r.segments
    /\ token_embeddings' = r.token_embeddings
    /\ embedding' = r.embedding
    /\ out' = IF r.out # None THEN r.out
              ELSE IF r.embedding # None THEN r.embedding
              ELSE r.tokens
    /\ status' = "returned"
    /\ UNCHANGED <<self, kept, globals>>

\* Faulty variant of Forward: the call also updates a parameter of the module, as a
\* training step would.
ForwardTraining(batch) ==
    \E r \in {ForwardRun(batch)} :
    /\ x' = batch
    /\ tokens' = r.tokens
    /\ pos' = r.pos
    /\ segments' = r.segments
    /\ token_embeddings' = r.token_embeddings
    /\ embedding' = r.embedding
    /\ out' = r.out
    /\ status' = r.status
    /\ norm_bias' = List([k \in 1..Len(norm_bias) |-> 1 - norm_bias[k]])
    /\ UNCHANGED <<d_model, pos_embed, seg_embed, norm_weight,
                   max_position_embeddings, kept, globals>>

\* Faulty variant of Forward: a position id past the table makes the call grow the
\* table by a row before it fails.
ForwardResizing(batch) ==
    \E r \in {ForwardRun(batch)} :
    /\ x' = batch
    /\ tokens' = r.tokens
    /\ pos' = r.pos
    /\ segments' = r.segments
    /\ token_embeddings' = r.token_embeddings
    /\ embedding' = r.embedding
    /\ out' = r.out
    /\ status' = r.status
    /\ pos_embed' = IF r.status = "position_index_error"
                    THEN Append(pos_embed, pos_embed[1])
                    ELSE pos_embed
    /\ UNCHANGED <<d_model, seg_embed, norm_weight, norm_bias,
                   max_position_embeddings, kept, globals>>

Forward(batch) ==
    \E r \in {ForwardRun(batch)} :
    /\ x' = batch
    /\ tokens' = r.tokens
    /\ pos' = r.pos
    /\ segments' = r.segments
    /\ token_embeddings' = r.token_embeddings
    /\ embedding' = r.embedding
    /\ out' = r.out
    /\ status' = r.status
    /\ UNCHANGED <<self, kept, globals>>

\* The caller keeps the outcome of the call that has just ended:
\*   y = model(x)
NoCall == [x |-> None, status |-> "none", out |-> None]
Keep ==
    /\ status # "constructed"
    /\ kept' = [x |-> x, status |-> status, out |-> out]
    /\ UNCHANGED <<self, call, globals>>

(* --------------------------- specifications --------------------------- *)
Texts == SeqsOf(WordPieces, 0, MaxWords)
Batches == SeqsOf(Texts, 1, MaxBatch)
Documents == SeqsOf(CorpusWords, 0, MaxDocWords)
Corpora == SeqsOf(Documents, 0, MaxDocs)

NoCallYet ==
    /\ x = None /\ tokens = None /\ pos = None /\ segments = None
    /\ token_embeddings = None /\ embedding = None /\ out = None
    /\ status = "constructed"
    /\ kept = NoCall

NoCorpusYet ==
    /\ corpus = None /\ corpus_words = None /\ n_corpus_words = -1

\* An Embedding instance right after construction.
Init ==
    /\ \E m \in 1..MaxLen, d \in 1..MaxDModel : Construct(m, d)
    /\ NoCallYet
    /\ NoCorpusYet

Next == \E batch \in Batches : Forward(batch)

Spec == Init /\ [][Next]_vars

\* Calls on one-text batches, the caller keeping some of the outcomes.
NextRepeat ==
    \/ \E text \in Texts : Forward(<<text>>)
    \/ Keep

SpecRepeat == Init /\ [][NextRepeat]_vars

\* The distinct_words cells, run before any Embedding exists.
InitWords ==
    /\ d_model = 0 /\ pos_embed = None /\ seg_embed = None
    /\ norm_weight = None /\ norm_bias = None
    /\ max_position_embeddings = 0
    /\ NoCallYet
    /\ NoCorpusYet

NextWords == \E c \in Corpora : DistinctWords(c)

SpecWords == InitWords /\ [][NextWords]_vars

(* ============================== claims ================================ *)
Called == status # "constructed"
Returned == status = "returned"
\* The statement that raised, by notebook line.
RaisedAtEncoder == status = "encoder_error"                \* line 266
RaisedAtSum ==                                             \* line 267
    status \in {"position_index_error", "add_error", "segment_index_error"}
RaisedAtNorm == status = "norm_error"                      \* line 268
\* bert_model returned, so line 267 was entered.
Encoded == token_embeddings # None
\* Line 267 completed.
Summed == embedding # None

Rows(t) == 1..Len(t)
Cols(t) == 1..Size1(t)

(* ------------------------------- C1 ----------------------------------- *)
\* C1 (as claimed): in every call of forward every token-id sequence
\* obtained from the tokenizer has length exactly maxlen.
C1_TokensHaveLengthMaxlen ==
    Called => \A b \in Rows(tokens) : Len(tokens[b]) = maxlen

(* ------------------------------- C2 ----------------------------------- *)
\* C2 (as claimed): whenever forward returns, the result has shape
\* [batch, seq_len, d_model] with seq_len the tokenizer's length and d_model
\* the encoder's hidden width; and a composer with maxlen = 5, d_model = 4
\* returns shape [1, 5, 4] with position ids 0,1,2,3,4 for a batch of one.
C2_ShapeBatchMaxlenDModel ==
    Returned =>
        /\ Shape3(out) = <<Len(x), Size1(tokens), d_model>>
        /\ d_model = HIDDEN_SIZE
        /\ (maxlen = 5 /\ d_model = 4 /\ Len(x) = 1) =>
              /\ Shape3(out) = <<1, 5, 4>>
              /\ pos[1] = <<0, 1, 2, 3, 4>>

(* ------------------------------- C3 ----------------------------------- *)
VecSum3(a, b, c) == [k \in 1..Len(a) |-> a[k] + b[k] + c[k]]

\* C3: whenever forward returns, the output vector at row b, position i is
\* the normalization of token_embedding[b][i] + position_table[i] +
\* segment_table[0], a function of that one position's vectors only.
C3_OutputIsNormOfSum ==
    Returned =>
        /\ Shape2(out) = Shape2(tokens)
        /\ \A b \in Rows(out) : \A i \in Cols(out) :
              out[b][i] =
                 LayerNormVec(VecSum3(token_embeddings[b][i],
                                      pos_embed[i], seg_embed[1]),
                              norm_weight, norm_bias)

C3_Witness ==
    /\ Returned
    /\ Len(x) = 2 /\ tokens[1] # tokens[2]
    /\ out[1] # out[2]

(* ------------------------------- C4 ----------------------------------- *)
\* C4: in every call the position ids of every row are 0,1,...,seq_len-1
\* with seq_len the token sequence length, the same for every row; and once
\* the sum is formed, what it adds to the token embedding at position i is
\* the same for every row of the batch, whatever the tokens.
C4_PositionsDenseAndShared ==
    /\ Called =>
          /\ Shape2(pos) = Shape2(tokens)
          /\ \A b \in Rows(pos) : \A i \in Cols(pos) : pos[b][i] = i - 1
          /\ \A b1, b2 \in Rows(pos) : pos[b1] = pos[b2]
    /\ Summed =>
          \A b1, b2 \in Rows(embedding) : \A i \in Cols(embedding) :
             \A k \in 1..Size2(embedding) :
                embedding[b1][i][k] - token_embeddings[b1][i][k]
              = embedding[b2][i][k] - token_embeddings[b2][i][k]

C4_Witness ==
    /\ Summed
    /\ Len(x) = 2 /\ tokens[1] # tokens[2]
    /\ Size1(tokens) >= 3
    /\ token_embeddings[1] # token_embeddings[2]

(* ------------------------------- C5 ----------------------------------- *)
\* C5: in every call the segment ids have the shape of the tokens and are
\* all 0, a valid row of the two-row segment table (never 1); and once the
\* sum is formed, the segment term at every position is row 0 of the table.
C5_SegmentsAllZero ==
    /\ Called =>
          /\ Shape2(segments) = Shape2(tokens)
          /\ \A b \in Rows(segments) : \A i \in Cols(segments) :
                /\ segments[b][i] = 0
                /\ segments[b][i] \in 0..(Len(seg_embed) - 1)
          /\ Len(seg_embed) = 2
          /\ status # "segment_index_error"
    /\ Summed =>
          \A b \in Rows(embedding) : \A i \in Cols(embedding) :
             \A k \in 1..Size2(embedding) :
                  embedding[b][i][k] - token_embeddings[b][i][k]
                    - pos_embed[i][Pick(k, d_model)]
                = seg_embed[1][Pick(k, d_model)]

C5_Witness ==
    /\ Summed
    /\ Size1(tokens) >= 2
    /\ seg_embed[1] # seg_embed[2]

(* ------------------------------- C6 ----------------------------------- *)
WidthMismatch == Encoded /\ Size2(token_embeddings) # d_model

\* C6 (as claimed): if the encoder's output does not match the tokens'
\* shape and d_model, forward fails at the summation step.
C6_MismatchFailsAtSum ==
    (Encoded /\ Shape3(token_embeddings) # Shape2(tokens) \o <<d_model>>)
        => RaisedAtSum

\* C6 (amended): if the encoder's hidden width differs from d_model,
\* forward returns no result: it fails at the summation statement, or, when
\* d_model is 1 and the sum broadcasts, at the normalization statement.
C6_MismatchNeverReturns ==
    WidthMismatch =>
        /\ out = None
        /\ RaisedAtSum \/ (RaisedAtNorm /\ d_model = 1)

C6_Witness ==
    /\ WidthMismatch
    /\ RaisedAtNorm
    /\ Shape3(embedding) = Shape3(token_embeddings)

C8_ForwardLeavesInstanceUnchanged == [][self' = self]_vars

C8_Witness ==
    /\ status = "add_error"
    /\ token_embeddings # None /\ embedding = None

(* ------------------------------- C9 ----------------------------------- *)
IsSorted(l) == \A i, j \in 1..Len(l) : i < j => l[i] <= l[j]

\* C9 (as claimed): distinct_words returns the words of the corpus, each
\* exactly once, as a sorted list, and the length of that list.
C9_SortedDistinctWords ==
    n_corpus_words # -1 =>
        /\ {corpus_words[i] : i \in 1..Len(corpus_words)} = WordSet(corpus)
        /\ \A i, j \in 1..Len(corpus_words) :
              i # j => corpus_words[i] # corpus_words[j]
        /\ n_corpus_words = Len(corpus_words)
        /\ n_corpus_words = Cardinality(WordSet(corpus))
        /\ IsSorted(corpus_words)

(* ------------------------------- C10 ---------------------------------- *)
\* C10 (as claimed): every position id handed to the position-table lookup
\* is below maxlen, so the lookup never raises an index error.
C10_PositionIdsBelowMaxlen ==
    /\ Encoded =>
          \A b \in Rows(pos) : \A i \in Cols(pos) : pos[b][i] < maxlen
    /\ status # "position_index_error"

====
